---- MODULE Spec2Model ----
(***************************************************************************)
(* State-machine model of gdocs_mcp: the Credential Store                  *)
(* (auth.py, GoogleAuthManager), the Document Client (drive.py,            *)
(* GoogleDriveClient) and the Tool Adapter (server.py,                     *)
(* GoogleDocsMCPServer).                                                   *)
(*                                                                         *)
(* The remote Drive API, the OAuth endpoints and the file system are the   *)
(* environment: every call into them has its outcome chosen with \E.       *)
(***************************************************************************)
EXTENDS Integers, Sequences, FiniteSets, TLC

\* ------------------------------------------------------------------ bounds
\* Clock ticks the model lets pass.
MaxTime == 1
\* Ticks a freshly issued access token stays unexpired.
Lifetime == 1
\* Tool calls the adapter receives in one run.
MaxCalls == 2
\* Tool calls the adapter receives in a run whose reads are compared.
MaxWatchedCalls == 3
\* Tool calls pending at once in a run with concurrent calls.
MaxPending == 3

VARIABLES
    pc,            \* "boot" | "auth" | "serving": position in GoogleDocsMCPServer.__init__
    now,           \* the wall clock
    tokenFile,     \* the persisted token file at token_path
    secretExists,  \* credentials_path.exists(): the client-secret file
    credentials,   \* GoogleAuthManager.credentials
    service,       \* GoogleDriveClient.service
    nextTok,       \* next access token the OAuth endpoints hand out
    refreshCalls,  \* calls of Credentials.refresh made so far
    flowRuns,      \* interactive authorization flows started so far
    audit,         \* what became of them: refreshes and flows that succeeded, token
                   \* writes that succeeded and failed, the error the store's last
                   \* method caught
    boot,          \* what the store found when it was constructed
    ncalls,        \* number of tool calls received
    nfailed,       \* number of them that ended in an exception
    first,         \* in a run whose reads are compared: the first read that
                   \* reached the API, with its outcome
    last,          \* the tool call being answered, with its outcome
    config,        \* the configuration handed to GoogleAuthManager
    disk,          \* the files on the disk, by path
    paths,         \* self.credentials_path and self.token_path, and the paths the
                   \* store has read and written
    tasks          \* in a run with concurrent calls: the coroutine the event loop
                   \* is running and the position of each call

vars == <<pc, now, tokenFile, secretExists, credentials, service, nextTok,
          refreshCalls, flowRuns, audit, boot, ncalls, nfailed, first, last, config, disk, paths, tasks>>

\* ------------------------------------------------------------- credentials
\* A google.oauth2 Credentials object, or None (has = FALSE).
\* tok = 0 is a credential whose access token is None.
None == [has |-> FALSE, tok |-> 0, rt |-> FALSE, exp |-> 0]

Cred(t, r, e) == [has |-> TRUE, tok |-> t, rt |-> r, exp |-> e]

\* Credentials.expired, read at clock t.
Expired(c, t) == t >= c.exp

\* Credentials.valid: a token is present and it is not expired.
Valid(c, t) == c.tok # 0 /\ ~Expired(c, t)

\* The token file: absent, unreadable/unparsable, or a stored credential.
NoFile == [st |-> "absent", cred |-> None]

BadFile == [st |-> "corrupt", cred |-> None]

FileOf(c) == [st |-> "cred", cred |-> c]

\* The store's state threaded through its methods.
Store(c, f, nt, rc, fr, a) ==
    [credentials |-> c, tokenFile |-> f, nextTok |-> nt, refreshCalls |-> rc,
     flowRuns |-> fr, audit |-> a]

NoAudit == [refreshOks |-> 0, flowOks |-> 0, writes |-> 0, writeFails |-> 0, fault |-> ""]

\* The store as a public method finds it: the error of the method before is
\* forgotten.
CurStore ==
    Store(credentials, tokenFile, nextTok, refreshCalls, flowRuns,
          [audit EXCEPT !.fault = ""])

\* save_token with the write going astray: it reports success and leaves the
\* token file as it was.
save_token_astray(s, wOk) ==
    IF ~s.credentials.has THEN s
    ELSE [s EXCEPT !.audit.writes = @ + 1]

\* _save_token: writes the in-memory credential; a failed write is logged
\* and swallowed.
save_token(s, wOk) ==
    IF ~s.credentials.has THEN s
    ELSE IF wOk
         THEN [s EXCEPT !.tokenFile = FileOf(s.credentials),
                        !.audit.writes = @ + 1]
         ELSE [s EXCEPT !.audit.writeFails = @ + 1]

\* authenticate with the except clause forgetting to drop the credential.
authenticate_keeps(s, t, flow, wOk) ==
    IF ~secretExists THEN s
    ELSE IF flow = "ok"
         THEN save_token([s EXCEPT !.credentials = Cred(s.nextTok, TRUE, t + Lifetime),
                                  !.nextTok = @ + 1,
                                  !.flowRuns = @ + 1,
                                  !.audit.flowOks = @ + 1], wOk)
         ELSE [s EXCEPT !.flowRuns = @ + 1,
                        !.audit.fault = "flow"]

\* _authenticate at clock t: returns early without the client-secret file;
\* otherwise runs the flow, whose result replaces the credential and is
\* saved; any exception leaves None.
authenticate(s, t, flow, wOk) ==
    IF ~secretExists THEN s
    ELSE IF flow = "ok"
         THEN save_token([s EXCEPT !.credentials = Cred(s.nextTok, TRUE, t + Lifetime),
                                  !.nextTok = @ + 1,
                                  !.flowRuns = @ + 1,
                                  !.audit.flowOks = @ + 1], wOk)
         ELSE [s EXCEPT !.credentials = None,
                        !.flowRuns = @ + 1,
                        !.audit.fault = "flow"]

\* A successful Credentials.refresh at clock t: a new access token with a
\* new expiry, the refresh token kept.
Refreshed(s, t) ==
    [s EXCEPT !.credentials = [@ EXCEPT !.tok = s.nextTok, !.exp = t + Lifetime],
              !.nextTok = @ + 1,
              !.refreshCalls = @ + 1,
              !.audit.refreshOks = @ + 1]

\* load_credentials without the save after the refresh.
load_credentials_unsaved(s, t, refreshOk, flow, wOk) ==
    IF s.tokenFile.st = "corrupt"
    THEN [s EXCEPT !.credentials = None, !.audit.fault = "load"]
    ELSE LET loaded == IF s.tokenFile.st = "cred"
                       THEN [s EXCEPT !.credentials = s.tokenFile.cred]
                       ELSE s
             needs == loaded.credentials.has /\ Expired(loaded.credentials, t)
                      /\ loaded.credentials.rt
         IN  IF needs /\ ~refreshOk
             THEN [loaded EXCEPT !.credentials = None,
                                 !.refreshCalls = @ + 1,
                                 !.audit.fault = "refresh"]
             ELSE LET cur == IF needs THEN Refreshed(loaded, t) ELSE loaded
                  IN  IF ~cur.credentials.has \/ ~Valid(cur.credentials, t)
                      THEN authenticate(cur, t, flow, wOk)
                      ELSE cur

\* _load_credentials at clock t: load the file when there is one, refresh an
\* expired credential that has a refresh token and save it, authenticate
\* when that leaves no valid credential; any exception leaves None.
load_credentials(s, t, refreshOk, flow, wOk) ==
    IF s.tokenFile.st = "corrupt"
    THEN [s EXCEPT !.credentials = None, !.audit.fault = "load"]
    ELSE LET loaded == IF s.tokenFile.st = "cred"
                       THEN [s EXCEPT !.credentials = s.tokenFile.cred]
                       ELSE s
             needs == loaded.credentials.has /\ Expired(loaded.credentials, t)
                      /\ loaded.credentials.rt
         IN  IF needs /\ ~refreshOk
             THEN [loaded EXCEPT !.credentials = None,
                                 !.refreshCalls = @ + 1,
                                 !.audit.fault = "refresh"]
             ELSE LET cur == IF needs THEN save_token(Refreshed(loaded, t), wOk)
                             ELSE loaded
                  IN  IF ~cur.credentials.has \/ ~Valid(cur.credentials, t)
                      THEN authenticate(cur, t, flow, wOk)
                      ELSE cur

\* get_credentials that authenticates on every call.
get_credentials_eager(s, t, flow, wOk) == authenticate(s, t, flow, wOk)

\* get_credentials that never authenticates.
get_credentials_idle(s, t, flow, wOk) == s

\* get_credentials at clock t: authenticates only when the store holds
\* nothing, then returns whatever it holds.
get_credentials(s, t, flow, wOk) ==
    IF ~s.credentials.has THEN authenticate(s, t, flow, wOk) ELSE s

\* ------------------------------------------------------------ the remote API
\* MIME_TYPES of drive.py.
MimeDocument == "application/vnd.google-apps.document"

MimeSpreadsheet == "application/vnd.google-apps.spreadsheet"

MimePresentation == "application/vnd.google-apps.presentation"

MimeFolder == "application/vnd.google-apps.folder"

\* _get_file_type: the user-facing type of a MIME type.
get_file_type(mime) ==
    CASE mime = MimeDocument -> "document"
      [] mime = MimeSpreadsheet -> "spreadsheet"
      [] mime = MimePresentation -> "presentation"
      [] mime = MimeFolder -> "folder"
      [] OTHER -> "file"

\* Text is a sequence of tokens; markup tags are tokens of their own.
Tags == {"<p>", "</p>", "<b>", "</b>"}

HasTag(text) == \E i \in DOMAIN text : text[i] \in Tags

\* The files of the remote Drive the calls are tried on.  An entry is what
\* the API returns for a file; opt is the set of optional keys the entry
\* carries, and an optional field outside opt is not there to be read.
DocIds == {"d1", "s1", "p1", "f1", "b1"}

Entry(id, name, mime, opt) ==
    [id |-> id, name |-> name, mimeType |-> mime, opt |-> opt,
     modifiedTime |-> IF "modifiedTime" \in opt THEN "t-" \o id ELSE "?",
     description |-> IF "description" \in opt THEN "about " \o name ELSE "?",
     webViewLink |-> IF "webViewLink" \in opt THEN "https://view/" \o id ELSE "?"]

\* dict.get(key, "") on an optional key of an entry.
Get(entry, key) ==
    IF key \notin entry.opt THEN ""
    ELSE CASE key = "modifiedTime" -> entry.modifiedTime
           [] key = "description" -> entry.description
           [] OTHER -> entry.webViewLink

Metadata(id) ==
    CASE id = "d1" -> Entry("d1", "Notes", MimeDocument, {"modifiedTime", "description", "webViewLink"})
      [] id = "s1" -> Entry("s1", "Budget", MimeSpreadsheet, {"modifiedTime", "webViewLink"})
      [] id = "p1" -> Entry("p1", "Deck", MimePresentation, {})
      [] id = "f1" -> Entry("f1", "readme", "text/plain", {"modifiedTime"})
      [] id = "g1" -> Entry("g1", "Reports", MimeFolder, {"webViewLink"})
      [] OTHER -> Entry("b1", "photo", "image/png", {})

\* The body the API returns for an export of a file to a MIME type, and for
\* get_media: bytes, which are valid UTF-8 or not.
Body(u, text) == [utf8 |-> u, text |-> text]

ExportBody(id, mime) ==
    CASE mime = "text/html" -> Body(TRUE, <<"<p>", "Hello", "<b>", "World", "</b>", "</p>">>)
      [] mime = "text/csv" -> Body(TRUE, <<"a,b">>)
      [] OTHER -> Body(TRUE, <<"Hello", "World">>)

MediaBody(id) ==
    IF id = "f1" THEN Body(TRUE, <<"plain", "words">>) ELSE Body(FALSE, <<>>)

\* How a remote request ends: a response, an HttpError, or any other
\* exception (a transport failure).
Outcomes == {"ok", "http", "other"}

\* A Python string the API reads as query syntax is a sequence of tokens:
\* words, MIME types, parentheses and the apostrophe that opens and closes a
\* string literal.  NoQuery is the q of a request that carries none.
Quote == "'"

NoQuery == <<>>

\* One request of the client library: the API method, the export MIME type
\* it asks for ("" when the method takes none), for files().list the query
\* and page size, and how the request ended.
Rq(kind, mime, o) == [kind |-> kind, mime |-> mime, q |-> NoQuery, pageSize |-> 0, out |-> o]

ListRq(q, pageSize, o) == [kind |-> "list", mime |-> "", q |-> q, pageSize |-> pageSize, out |-> o]

\* What a helper of the client hands back: the exception it raised ("" for
\* none, "http" for HttpError, "other" for anything else), the requests it
\* issued, the text it returned, and whether the Markdown conversion ran
\* ("none", "ok", or "raised" when the library call threw).
Ret(exc, reqs, text) == [exc |-> exc, reqs |-> reqs, text |-> text, conv |-> "none"]

\* files().export(...).execute().decode("utf-8") with outcome o.
Export(id, mime, o) ==
    IF o # "ok" THEN Ret(o, <<Rq("export", mime, o)>>, <<>>)
    ELSE IF ~ExportBody(id, mime).utf8 THEN Ret("other", <<Rq("export", mime, o)>>, <<>>)
    ELSE Ret("", <<Rq("export", mime, o)>>, ExportBody(id, mime).text)

\* str.lower on the letters the formats use; a format is a sequence of
\* characters.
LowerChar(c) ==
    CASE c = "M" -> "m" [] c = "A" -> "a" [] c = "R" -> "r" [] c = "K" -> "k"
      [] c = "D" -> "d" [] c = "O" -> "o" [] c = "W" -> "w" [] c = "N" -> "n"
      [] c = "H" -> "h" [] c = "T" -> "t" [] c = "L" -> "l" [] c = "E" -> "e"
      [] c = "X" -> "x" [] c = "P" -> "p" [] c = "F" -> "f"
      [] OTHER -> c

Lower(str) == [i \in DOMAIN str |-> LowerChar(str[i])]

FmtMarkdown == <<"m", "a", "r", "k", "d", "o", "w", "n">>

FmtHtml == <<"h", "t", "m", "l">>

Formats ==
    {FmtMarkdown, <<"M", "a", "r", "k", "d", "o", "w", "n">>,
     FmtHtml, <<"H", "T", "M", "L">>,
     <<"t", "e", "x", "t">>, <<"p", "d", "f">>}

\* markdown.markdown of the Python-Markdown package: it renders Markdown
\* source to HTML.  Raw HTML in the source is passed through untouched, and
\* text that is not inside a block-level element is wrapped in a paragraph.
markdown_markdown(text) ==
    IF text = <<>> THEN <<>>
    ELSE IF text[1] = "<p>" THEN text
    ELSE <<"<p>">> \o text \o <<"</p>">>

\* _html_to_markdown: the library call; the input itself when it raises.
html_to_markdown(html, convOk) ==
    IF convOk THEN markdown_markdown(html) ELSE html

\* export_document comparing the format as given, without lower().
export_document_cased(id, fmt, o1, convOk) ==
    IF fmt = FmtHtml THEN Export(id, "text/html", o1)
    ELSE IF fmt = FmtMarkdown
         THEN LET e == Export(id, "text/html", o1)
              IN  IF e.exc # "" THEN e
                  ELSE [Ret("", e.reqs, html_to_markdown(e.text, convOk))
                           EXCEPT !.conv = IF convOk THEN "ok" ELSE "raised"]
         ELSE Export(id, "text/plain", o1)

\* _export_document: HTML for "html", HTML converted for "markdown", plain
\* text for anything else, the format compared in lower case.
export_document(id, fmt, o1, convOk) ==
    IF Lower(fmt) = FmtHtml THEN Export(id, "text/html", o1)
    ELSE IF Lower(fmt) = FmtMarkdown
         THEN LET e == Export(id, "text/html", o1)
              IN  IF e.exc # "" THEN e
                  ELSE [Ret("", e.reqs, html_to_markdown(e.text, convOk))
                           EXCEPT !.conv = IF convOk THEN "ok" ELSE "raised"]
         ELSE Export(id, "text/plain", o1)

\* export_spreadsheet without the except clause.
export_spreadsheet_bare(id, o1, o2) == Export(id, "text/csv", o1)

\* _export_spreadsheet: CSV, and plain text when the CSV export raises
\* HttpError.
export_spreadsheet(id, o1, o2) ==
    LET e == Export(id, "text/csv", o1)
    IN  IF e.exc # "http" THEN e
        ELSE LET f == Export(id, "text/plain", o2)
             IN  Ret(f.exc, e.reqs \o f.reqs, f.text)

PresentationPlaceholder ==
    <<"[This presentation cannot be exported as text. Please view it in Google Slides.]">>

\* export_presentation without the except clause.
export_presentation_bare(id, o1) == Export(id, "text/plain", o1)

\* _export_presentation: plain text, and the placeholder when the export
\* raises HttpError.
export_presentation(id, o1) ==
    LET e == Export(id, "text/plain", o1)
    IN  IF e.exc = "http" THEN Ret("", e.reqs, PresentationPlaceholder) ELSE e

BinaryPlaceholder == <<"[Binary content not displayed]">>

ErrorPlaceholder == <<"[Error retrieving file content]">>

\* _get_file_content: get_media, decoded when it is valid UTF-8.
get_file_content(id, o1) ==
    IF o1 = "http" THEN Ret("", <<Rq("get_media", "", o1)>>, ErrorPlaceholder)
    ELSE IF o1 = "other" THEN Ret("other", <<Rq("get_media", "", o1)>>, <<>>)
    ELSE IF MediaBody(id).utf8 THEN Ret("", <<Rq("get_media", "", o1)>>, MediaBody(id).text)
    ELSE Ret("", <<Rq("get_media", "", o1)>>, BinaryPlaceholder)

\* The Document Content of a read; NoContent when the read raised.
NoContent == [id |-> "", name |-> "", type |-> "", modified |-> "", content |-> <<>>]

\* What a synchronous worker function hands back: err is "" for a normal
\* return, "runtime" for the RuntimeError it raises on HttpError, "raw" for
\* any other exception, which it lets through.
Done(err, reqs, content, items) ==
    [err |-> err, reqs |-> reqs, content |-> content, items |-> items, conv |-> "none",
     msg |-> <<>>, resp |-> <<>>]

\* str(error) of the HttpError a failed request raised.
HttpMessage(rq) == "HttpError " \o rq.kind \o " " \o rq.mime

\* The except clause of a worker function dropping the error's text.
Reraise_mute(prefix, reqs) == Done("runtime", reqs, NoContent, <<>>)

\* except HttpError as error: raise RuntimeError(f"{prefix}: {error}"), the
\* error being that of the last request sent.
Reraise(prefix, reqs) ==
    [Done("runtime", reqs, NoContent, <<>>)
        EXCEPT !.msg = <<prefix, HttpMessage(reqs[Len(reqs)])>>]

SearchPrefix == "Failed to search Google Drive"

ReadPrefix == "Failed to read document from Google Drive"

ListPrefix == "Failed to list documents from Google Drive"

\* A _read_document_sync that stamps the content with the time of the read
\* instead of the modifiedTime of the metadata.
read_document_sync_stamped(id, fmt, oMeta, o1, o2, convOk) ==
    IF oMeta = "http" THEN Reraise(ReadPrefix, <<Rq("get", "", oMeta)>>)
    ELSE IF oMeta = "other" THEN Done("raw", <<Rq("get", "", oMeta)>>, NoContent, <<>>)
    ELSE LET meta == Metadata(id)
             mime == meta.mimeType
             e == IF mime = MimeDocument THEN export_document(id, fmt, o1, convOk)
                  ELSE IF mime = MimeSpreadsheet THEN export_spreadsheet(id, o1, o2)
                  ELSE IF mime = MimePresentation THEN export_presentation(id, o1)
                  ELSE get_file_content(id, o1)
             reqs == <<Rq("get", "", oMeta)>> \o e.reqs
         IN  IF e.exc = "http" THEN Reraise(ReadPrefix, reqs)
             ELSE IF e.exc = "other" THEN Done("raw", reqs, NoContent, <<>>)
             ELSE [Done("", reqs,
                        [id |-> meta.id, name |-> meta.name, type |-> get_file_type(mime),
                         modified |-> IF now = 0 THEN "read-at-0" ELSE "read-later", content |-> e.text],
                        <<>>) EXCEPT !.conv = e.conv]

\* _read_document_sync.
read_document_sync(id, fmt, oMeta, o1, o2, convOk) ==
    IF oMeta = "http" THEN Reraise(ReadPrefix, <<Rq("get", "", oMeta)>>)
    ELSE IF oMeta = "other" THEN Done("raw", <<Rq("get", "", oMeta)>>, NoContent, <<>>)
    ELSE LET meta == Metadata(id)
             mime == meta.mimeType
             e == IF mime = MimeDocument THEN export_document(id, fmt, o1, convOk)
                  ELSE IF mime = MimeSpreadsheet THEN export_spreadsheet(id, o1, o2)
                  ELSE IF mime = MimePresentation THEN export_presentation(id, o1)
                  ELSE get_file_content(id, o1)
             reqs == <<Rq("get", "", oMeta)>> \o e.reqs
         IN  IF e.exc = "http" THEN Reraise(ReadPrefix, reqs)
             ELSE IF e.exc = "other" THEN Done("raw", reqs, NoContent, <<>>)
             ELSE [Done("", reqs,
                        [id |-> meta.id, name |-> meta.name, type |-> get_file_type(mime),
                         modified |-> Get(meta, "modifiedTime"), content |-> e.text],
                        <<>>) EXCEPT !.conv = e.conv]

\* MIME_TYPES.values(), in the order of the dictionary, and those of them the
\* filter names: every value but the folder.
MimeValues == <<MimeDocument, MimeSpreadsheet, MimePresentation, MimeFolder>>

SupportedMimes == SelectSeq(MimeValues, LAMBDA mime : mime # MimeFolder)

\* sep.join(parts) on token strings.
RECURSIVE Join(_, _)
Join(parts, sep) ==
    IF parts = <<>> THEN <<>>
    ELSE IF Len(parts) = 1 THEN parts[1]
    ELSE parts[1] \o sep \o Join(Tail(parts), sep)

\* " or ".join([f"mimeType='{mime}'" for mime in ... if mime != folder]).
mime_filter ==
    Join([i \in DOMAIN SupportedMimes |->
             <<"mimeType", "=", Quote, SupportedMimes[i], Quote>>], <<"or">>)

\* f"({mime_filter}) and (name contains '{query}' or fullText contains
\* '{query}')": the query is put between the apostrophes as it is.
full_query(query) ==
    <<"(">> \o mime_filter \o <<")", "and", "(", "name", "contains", Quote>>
       \o query \o <<Quote, "or", "fullText", "contains", Quote>>
       \o query \o <<Quote, ")">>

\* Descriptor reading the optional keys with file[key].
Descriptor_strict(file) ==
    [id |-> file.id, name |-> file.name, type |-> get_file_type(file.mimeType),
     modified |-> file.modifiedTime,
     description |-> file.description,
     url |-> file.webViewLink]

\* The descriptor search and list build from one entry of the response.
Descriptor(file) ==
    [id |-> file.id, name |-> file.name, type |-> get_file_type(file.mimeType),
     modified |-> Get(file, "modifiedTime"),
     description |-> Get(file, "description"),
     url |-> Get(file, "webViewLink")]

\* ------------------------------------------------- the API reading of q
\* The files of the Drive: those read is tried on, and a folder.
DriveFiles == DocIds \cup {"g1"}

\* The words "name contains" and "fullText contains" find in a file, and the
\* folders it lies in.
NameTerms(id) ==
    CASE id = "d1" -> {"Notes"}
      [] id = "s1" -> {"Budget"}
      [] id = "p1" -> {"Deck"}
      [] id = "f1" -> {"readme"}
      [] id = "g1" -> {"Reports", "report"}
      [] OTHER -> {"photo"}

TextTerms(id) == IF id \in {"d1", "s1", "f1"} THEN {"report"} ELSE {}

Parents(id) == IF id \in {"d1", "s1", "f1", "g1"} THEN {"F1"} ELSE {}

\* A string literal of q is what stands between an apostrophe and the next
\* one.  Literal(q, i) reads the literal that opens at position i: its text
\* and the position after it; one that is never closed cannot be read.
ClosingQuote(q, i) ==
    IF \E j \in (i + 1)..Len(q) : q[j] = Quote
    THEN CHOOSE j \in (i + 1)..Len(q) :
            q[j] = Quote /\ \A k \in (i + 1)..(j - 1) : q[k] # Quote
    ELSE 0

Literal(q, i) ==
    IF i <= Len(q) /\ q[i] = Quote /\ ClosingQuote(q, i) # 0
    THEN [ok |-> TRUE, v |-> SubSeq(q, i + 1, ClosingQuote(q, i) - 1),
          next |-> ClosingQuote(q, i) + 1]
    ELSE [ok |-> FALSE, v |-> <<>>, next |-> 0]

IsSym(q, i, tok) == i <= Len(q) /\ q[i] = tok

Truth(b) == IF b THEN "T" ELSE "F"

\* The terms of the query language the client's strings are written in,
\* each replaced by its truth for the file id: mimeType = '..',
\* name contains '..', fullText contains '..' and '..' in parents.  What is
\* left are parentheses, and, or; anything else is unreadable.
RECURSIVE Terms(_, _, _, _)
Terms(q, i, id, acc) ==
    IF i > Len(q) THEN [ok |-> TRUE, s |-> acc]
    ELSE IF IsSym(q, i, "mimeType") /\ IsSym(q, i + 1, "=") /\ Literal(q, i + 2).ok
         THEN Terms(q, Literal(q, i + 2).next, id,
                    Append(acc, Truth(Literal(q, i + 2).v = <<Metadata(id).mimeType>>)))
    ELSE IF IsSym(q, i, "name") /\ IsSym(q, i + 1, "contains") /\ Literal(q, i + 2).ok
         THEN Terms(q, Literal(q, i + 2).next, id,
                    Append(acc, Truth(\E w \in NameTerms(id) : Literal(q, i + 2).v = <<w>>)))
    ELSE IF IsSym(q, i, "fullText") /\ IsSym(q, i + 1, "contains") /\ Literal(q, i + 2).ok
         THEN Terms(q, Literal(q, i + 2).next, id,
                    Append(acc, Truth(\E w \in TextTerms(id) : Literal(q, i + 2).v = <<w>>)))
    ELSE IF Literal(q, i).ok /\ IsSym(q, Literal(q, i).next, "in")
               /\ IsSym(q, Literal(q, i).next + 1, "parents")
         THEN Terms(q, Literal(q, i).next + 2, id,
                    Append(acc, Truth(\E w \in Parents(id) : Literal(q, i).v = <<w>>)))
    ELSE IF q[i] \in {"(", ")", "and", "or"}
         THEN Terms(q, i + 1, id, Append(acc, q[i]))
    ELSE [ok |-> FALSE, s |-> <<>>]

\* The value of a formula of truths, parentheses, and, or; and binds tighter
\* than or.  next is the position after the part read.
Parsed(ok, v, next) == [ok |-> ok, v |-> v, next |-> next]

Unread == Parsed(FALSE, FALSE, 0)

RECURSIVE ParseOr(_, _)
RECURSIVE ParseAnd(_, _)
RECURSIVE ParsePrim(_, _)
RECURSIVE OrTail(_, _)
RECURSIVE AndTail(_, _)
ParsePrim(s, i) ==
    IF i > Len(s) THEN Unread
    ELSE IF s[i] \in {"T", "F"} THEN Parsed(TRUE, s[i] = "T", i + 1)
    ELSE IF s[i] = "("
         THEN LET r == ParseOr(s, i + 1)
              IN  IF r.ok /\ r.next <= Len(s) /\ s[r.next] = ")"
                  THEN Parsed(TRUE, r.v, r.next + 1)
                  ELSE Unread
    ELSE Unread

AndTail(s, r) ==
    IF r.ok /\ r.next <= Len(s) /\ s[r.next] = "and"
    THEN LET r2 == ParsePrim(s, r.next + 1)
         IN  IF r2.ok THEN AndTail(s, Parsed(TRUE, r.v /\ r2.v, r2.next)) ELSE Unread
    ELSE r

ParseAnd(s, i) == AndTail(s, ParsePrim(s, i))

OrTail(s, r) ==
    IF r.ok /\ r.next <= Len(s) /\ s[r.next] = "or"
    THEN LET r2 == ParseAnd(s, r.next + 1)
         IN  IF r2.ok THEN OrTail(s, Parsed(TRUE, r.v \/ r2.v, r2.next)) ELSE Unread
    ELSE r

ParseOr(s, i) == OrTail(s, ParseAnd(s, i))

\* What the API makes of q for the file id: unreadable (it answers 400), or
\* whether the file passes.
Reading(q, id) ==
    LET t == Terms(q, 1, id, <<>>)
        r == IF t.ok THEN ParseOr(t.s, 1) ELSE Unread
    IN  [ok |-> r.ok /\ r.next = Len(t.s) + 1, v |-> r.v]

WellFormed(q) == Reading(q, "d1").ok

Matches(q, id) == Reading(q, id).ok /\ Reading(q, id).v

\* Entries a files().list response may carry.
MaxFiles == 2

\* The responses the API may give to a files().list request: the entries of
\* files that pass q, each at most once, no more than the page size.  (A
\* response without a "files" key reads as the empty list.)
Listing(q, pageSize) ==
    LET match == {id \in DriveFiles : Matches(q, id)}
        n == IF pageSize < MaxFiles THEN pageSize ELSE MaxFiles
    IN  UNION {{f \in [1..k -> match] : \A i, j \in 1..k : i # j => f[i] # f[j]} : k \in 0..n}

\* How a files().list request may end: a q the API cannot read is answered
\* with an HttpError, if it is answered at all.
ListOutcomes(q) == IF WellFormed(q) THEN Outcomes ELSE Outcomes \ {"ok"}

\* What search and list make of a response: one descriptor per entry.
Listed(rq, files) ==
    [Done("", <<rq>>, NoContent, [i \in DOMAIN files |-> Descriptor(Metadata(files[i]))])
        EXCEPT !.resp = files]

\* _search_docs_sync: one files().list request; files are the ids of the
\* response's entries.
search_docs_sync(query, max_results, o, files) ==
    LET rq == ListRq(full_query(query), max_results, o)
    IN  IF o = "http" THEN Reraise(SearchPrefix, <<rq>>)
        ELSE IF o = "other" THEN Done("raw", <<rq>>, NoContent, <<>>)
        ELSE Listed(rq, files)

\* folder_id: None, or a string, which may be empty.
FolderNone == [given |-> FALSE, text |-> <<>>]

Folder(text) == [given |-> TRUE, text |-> text]

Truthy(folder_id) == folder_id.given /\ folder_id.text # <<>>

\* list_query without the parent clause.
list_query_unscoped(folder_id) == <<"(">> \o mime_filter \o <<")">>

\* The query of _list_documents_sync: the folder's id is put between the
\* apostrophes as it is.
list_query(folder_id) ==
    IF Truthy(folder_id)
    THEN <<"(">> \o mime_filter \o <<")", "and", Quote>> \o folder_id.text
            \o <<Quote, "in", "parents">>
    ELSE <<"(">> \o mime_filter \o <<")">>

\* _list_documents_sync.
list_documents_sync(folder_id, max_results, o, files) ==
    LET rq == ListRq(list_query(folder_id), max_results, o)
    IN  IF o = "http" THEN Reraise(ListPrefix, <<rq>>)
        ELSE IF o = "other" THEN Done("raw", <<rq>>, NoContent, <<>>)
        ELSE Listed(rq, files)

\* ------------------------------------------------------------- the client
\* _initialize_service at clock t, on store s and service handle svc: asks the
\* store for its credential and builds the service around it; a failing
\* build leaves no service.
initialize_service(s, svc, t, flow, wOk, buildOk) ==
    LET g == get_credentials(s, t, flow, wOk)
    IN  IF g.credentials.has
        THEN [store |-> g, service |-> IF buildOk THEN g.credentials ELSE None]
        ELSE [store |-> g, service |-> svc]

\* ------------------------------------------------------------------ state
\* The arguments of a tool call.
Call(op, id, fmt, max) ==
    [op |-> op, id |-> id, fmt |-> fmt, max |-> max, given |-> FALSE, text |-> <<>>]

\* A finished call, the n-th received: its arguments, whether the store held
\* a credential when it arrived and the authorization flows started on its
\* behalf, the credential its requests were sent with (tok, and stale when
\* that credential was expired as they were sent) and what it returned or
\* raised; the blocking steps taken on its behalf; the credential, token file
\* and service handle it found.
\* Here a variant in which a call received after a failed one fails too.
Ended_poisoned(n, c, had, flows, d, svc, t) ==
    [n |-> n, op |-> c.op, id |-> c.id, fmt |-> c.fmt, max |-> c.max,
     given |-> c.given, text |-> c.text,
     hadCred |-> had, flows |-> flows,
     err |-> IF nfailed >= 1 THEN "runtime" ELSE d.err,
     reqs |-> d.reqs, content |-> d.content, items |-> d.items,
     conv |-> d.conv, msg |-> d.msg, resp |-> d.resp, tok |-> svc.tok,
     stale |-> svc.has /\ Expired(svc, t), steps |-> <<>>,
     before |-> [credentials |-> None, tokenFile |-> NoFile, service |-> None]]

\* A finished call, as the server reports it.
Ended(n, c, had, flows, d, svc, t) ==
    [n |-> n, op |-> c.op, id |-> c.id, fmt |-> c.fmt, max |-> c.max,
     given |-> c.given, text |-> c.text,
     hadCred |-> had, flows |-> flows,
     err |-> d.err, reqs |-> d.reqs, content |-> d.content, items |-> d.items,
     conv |-> d.conv, msg |-> d.msg, resp |-> d.resp, tok |-> svc.tok,
     stale |-> svc.has /\ Expired(svc, t), steps |-> <<>>,
     before |-> [credentials |-> None, tokenFile |-> NoFile, service |-> None]]

NoLast == Ended(0, Call("", "", <<>>, 0), FALSE, 0, Done("", <<>>, NoContent, <<>>), None, 0)

\* No read has reached the API yet; watch tells whether the run compares its
\* reads.
NoFirst == [watch |-> FALSE, rec |-> NoLast]

\* A blocking step taken on behalf of a call, and the thread it ran on: the
\* thread of the event loop, which runs the coroutine up to its await, or a
\* worker of the executor's pool, which runs the function handed to
\* run_in_executor.
Step(what, thread) == [what |-> what, thread |-> thread]

Repeat(n, x) == [i \in 1..n |-> x]

\* The authorization flows of the _initialize_service() the coroutine calls
\* before it awaits.
LoopSteps(flows) == Repeat(flows, Step("flow", "loop"))

\* The requests of the function run by loop.run_in_executor(None, ...).
WorkerSteps(reqs) == [i \in DOMAIN reqs |-> Step(reqs[i].kind, "worker")]

\* The RuntimeError("Google Drive API service not available") of the three
\* operations.
Unavailable == Done("unavailable", <<>>, NoContent, <<>>)

\* The queries search is called with: a word, a phrase with an apostrophe,
\* and a string that closes the literal and the parenthesis it is put in
\* and goes on in query syntax.
PlainQuery == <<"report">>

ApostropheQuery == <<"it", Quote, "s">>

CraftedQuery == <<"x", Quote, ")", "or", "(", "mimeType", "=", Quote, MimeFolder>>

Queries == {PlainQuery, ApostropheQuery, CraftedQuery}

MaxResults == {1, 2}

\* max_results of gdocs_list when the tool is called without it, and the
\* values list is called with.
DefaultListMax == 20

ListMaxResults == {1, DefaultListMax}

\* The folder ids list is called with: none, the empty string, a folder's
\* id, and a string that closes the literal it is put in and goes on in
\* query syntax.
CraftedFolder == <<"F1", Quote, "in", "parents", "or", Quote, "F1">>

Folders == {FolderNone, Folder(<<>>), Folder(<<"F1">>), Folder(CraftedFolder)}

\* The (doc_id, format) pairs read is called with: the document in every
\* format, every other file in two of them.
ReadArgs ==
    {<<"d1", f>> : f \in Formats}
       \cup {<<id, f>> : id \in DocIds \ {"d1"}, f \in {FmtMarkdown, FmtHtml}}

\* The token files the store may find: none, an unreadable one, a credential
\* saved earlier (access token 1, expired or not, with or without a refresh
\* token), or a credential without access token and expiry, which
\* from_authorized_user_info reads as expired.
TokenFiles ==
    {NoFile, BadFile}
       \cup {FileOf(Cred(1, r, e)) : r \in BOOLEAN, e \in 0..Lifetime}
       \cup {FileOf(Cred(0, r, 0)) : r \in BOOLEAN}

SetStore(s) ==
    /\ credentials' = s.credentials
    /\ tokenFile' = s.tokenFile
    /\ nextTok' = s.nextTok
    /\ refreshCalls' = s.refreshCalls
    /\ flowRuns' = s.flowRuns
    /\ audit' = s.audit

\* ------------------------------------------------------------------ paths
\* A pathlib.Path is the sequence of its parts: an absolute path starts with
\* "/", Path("") has no parts and names the current directory.
Cwd == <<"/", "work">>

\* Path.home() / ".config" / "gdocs-mcp".
HomeConfig == <<"/", "home", ".config", "gdocs-mcp">>

\* Path(__file__).parent.parent.parent.
PackageRoot == <<"/", "pkg">>

Parent(p) == IF p = <<>> THEN <<>> ELSE SubSeq(p, 1, Len(p) - 1)

Name(p) == IF p = <<>> THEN "" ELSE p[Len(p)]

\* The file or directory a path names: a relative path is taken from the
\* current directory.
Resolve(p) == IF p # <<>> /\ p[1] = "/" THEN p ELSE Cwd \o p

\* Path.exists() over the files of the disk: the path is one of them or a
\* directory above one of them (the current directory always exists).
Exists(p, files) ==
    \/ Resolve(p) = Cwd
    \/ \E f \in files :
          /\ Len(Resolve(p)) <= Len(f)
          /\ SubSeq(f, 1, Len(Resolve(p))) = Resolve(p)

\* name.endswith(".json") on the file names in use.
EndsWithJson(name) == name \in {"default.json", "credentials.json", "token.json"}

\* config.get(key): the value of an optional key of the configuration.
Absent == [given |-> FALSE, path |-> <<>>]

Given(p) == [given |-> TRUE, path |-> p]

\* The configuration handed to GoogleAuthManager: config_path as the server
\* sets it (no parts when the key is missing), and the two override keys.
Config(config_path, credentials_path, token_path) ==
    [config_path |-> config_path, credentials_path |-> credentials_path,
     token_path |-> token_path]

\* self.project_root.
project_root(cfg, files) ==
    IF Exists(cfg.config_path, files)
    THEN IF (\E i \in DOMAIN cfg.config_path : cfg.config_path[i] = "config")
               /\ EndsWithJson(Name(cfg.config_path))
         THEN Parent(Parent(cfg.config_path))
         ELSE Parent(cfg.config_path)
    ELSE PackageRoot

alternative_paths ==
    <<<<"config", "credentials.json">>,
      HomeConfig \o <<"credentials.json">>,
      PackageRoot \o <<"config", "credentials.json">>,
      Cwd \o <<"config", "credentials.json">>>>

\* The for loop over alternative_paths: the first that exists, else the
\* path as it was.
FirstExisting(alts, files, otherwise) ==
    IF \E i \in DOMAIN alts : Exists(alts[i], files)
    THEN alts[CHOOSE i \in DOMAIN alts :
                 /\ Exists(alts[i], files)
                 /\ \A j \in 1..(i - 1) : ~Exists(alts[j], files)]
    ELSE otherwise

\* self.credentials_path and self.token_path as GoogleAuthManager.__init__
\* leaves them.
auth_paths(cfg, files) ==
    LET root == project_root(cfg, files)
        primary == root \o <<"config", "credentials.json">>
        credentials_path ==
            IF Exists(primary, files) THEN primary
            ELSE FirstExisting(alternative_paths, files, primary)
        token == root \o <<"config", "token.json">>
        token_path ==
            IF ~Exists(token, files) /\ credentials_path # primary
            THEN Parent(credentials_path) \o <<"token.json">>
            ELSE token
    IN  [credentials_path |-> credentials_path, token_path |-> token_path]

\* The store's paths and the files it has opened: nothing before the store
\* is constructed.
NoPaths ==
    [stage |-> "new", credentials_path |-> <<>>, token_path |-> <<>>,
     read |-> <<>>, written |-> <<>>]

NoConfig == Config(<<>>, Absent, Absent)

\* The configurations given: the configuration file in a config directory,
\* elsewhere, missing, or not named; each override key given or not.
CustomCredentials == <<"/", "custom", "client.json">>

CustomToken == <<"/", "custom", "saved-token.json">>

ConfigFiles ==
    {<<"/", "proj", "config", "default.json">>, <<"/", "etc", "gdocs.conf">>}

ConfigPaths == ConfigFiles \cup {<<"/", "gone", "config", "default.json">>, <<>>}

Configs ==
    {Config(p, c, t) : p \in ConfigPaths,
                       c \in {Absent, Given(CustomCredentials)},
                       t \in {Absent, Given(CustomToken)}}

\* The client-secret and token files that may be on the disk.
SecretFiles ==
    {<<"/", "proj", "config", "credentials.json">>,
     Cwd \o <<"config", "credentials.json">>,
     HomeConfig \o <<"credentials.json">>,
     CustomCredentials}

SavedTokens ==
    {<<"/", "proj", "config", "token.json">>,
     HomeConfig \o <<"token.json">>,
     CustomToken}

\* The state before GoogleDocsMCPServer.__init__ runs, over one of the given
\* token files.
Start(files) ==
    /\ pc = "boot"
    /\ now = 0
    /\ tokenFile \in files
    /\ secretExists \in BOOLEAN
    /\ credentials = None
    /\ service = None
    /\ nextTok = 2
    /\ refreshCalls = 0
    /\ flowRuns = 0
    /\ audit = NoAudit
    /\ boot = [file |-> tokenFile, at |-> 0, fault |-> ""]
    /\ ncalls = 0
    /\ nfailed = 0
    /\ last = NoLast

\* A call of a run with concurrent calls: not received yet ("none"), its
\* coroutine waiting for the event loop ("ready"), inside
\* self._initialize_service() ("init"), awaiting the function it handed to the
\* executor ("worker"), or ended ("done"); whether it was received while
\* another call was initialising the service; the service handle its worker
\* function used.
NoTask == [at |-> "none", op |-> "", waited |-> FALSE, svc |-> None, err |-> ""]

\* No call is pending: the event loop runs no coroutine (loop = 0) and no
\* call has built the service.
NoTasks == [loop |-> 0, built |-> 0, calls |-> [i \in 1..MaxPending |-> NoTask]]

\* No store has been given a configuration, and calls come one at a time.
Unlocated == config = NoConfig /\ disk = {} /\ paths = NoPaths /\ tasks = NoTasks

Init == Start(TokenFiles) /\ first = NoFirst /\ Unlocated

\* A run whose reads are compared: it starts over a token file that is
\* missing or holds an unexpired credential, and receives one call more.
WatchedFiles == {NoFile, FileOf(Cred(1, TRUE, Lifetime))}

InitWatched == Start(WatchedFiles) /\ first = [NoFirst EXCEPT !.watch = TRUE] /\ Unlocated

\* The number of tool calls a run receives, and the arguments they are given:
\* a run whose reads are compared gets one search and one list among all its
\* reads.
CallBound == IF first.watch THEN MaxWatchedCalls ELSE MaxCalls

SearchArgs ==
    IF first.watch THEN {<<PlainQuery, 1>>}
    ELSE {<<query, max_results>> : query \in Queries, max_results \in MaxResults}

ListArgs ==
    IF first.watch THEN {<<FolderNone, 1>>}
    ELSE {<<folder_id, max_results>> : folder_id \in Folders, max_results \in ListMaxResults}

CallReadArgs ==
    IF first.watch THEN {a \in ReadArgs : a[2] = FmtMarkdown} ELSE ReadArgs

\* ---------------------------------------------------------------- actions
\* Time passes.
Tick ==
    /\ now < MaxTime
    /\ now' = now + 1
    /\ UNCHANGED <<pc, tokenFile, secretExists, credentials, service, nextTok,
                   refreshCalls, flowRuns, audit, boot, ncalls, nfailed, first, last, config, disk, paths, tasks>>

\* The outcomes the environment may choose for a step that is only taken
\* when taken holds; a step not taken has nothing to choose.
Flows(taken) == IF taken THEN {"ok", "error"} ELSE {"ok"}

Bools(taken) == IF taken THEN BOOLEAN ELSE {TRUE}

Outs(taken) == IF taken THEN Outcomes ELSE {"ok"}

\* A GoogleAuthManager.__init__ that leaves the loading for later.
AuthManagerInit_lazy ==
    /\ pc = "boot"
    /\ pc' = "auth"
    /\ boot' = [file |-> tokenFile, at |-> now, fault |-> ""]
    /\ UNCHANGED <<now, tokenFile, secretExists, credentials, service, nextTok,
                   refreshCalls, flowRuns, audit, ncalls, nfailed, first, last, config, disk, paths, tasks>>

\* GoogleAuthManager.__init__ (server.py line 38): construction loads the
\* credential.
AuthManagerInit ==
    /\ pc = "boot"
    /\ \E refreshOk \in Bools(tokenFile.st = "cred"), flow \in Flows(secretExists) :
          \E wOk \in Bools(refreshOk \/ flow = "ok") :
             LET s == load_credentials(CurStore, now, refreshOk, flow, wOk)
             IN  /\ SetStore(s)
                 /\ boot' = [file |-> tokenFile, at |-> now, fault |-> s.audit.fault]
    /\ pc' = "auth"
    /\ UNCHANGED <<now, secretExists, service, ncalls, nfailed, first, last, config, disk, paths, tasks>>

\* GoogleDriveClient.__init__ (server.py line 39), after which the tools are
\* registered and served.
DriveClientInit ==
    /\ pc = "auth"
    /\ \E flow \in Flows(secretExists /\ ~credentials.has), buildOk \in BOOLEAN :
          \E wOk \in Bools(~credentials.has /\ flow = "ok") :
             LET r == initialize_service(CurStore, None, now, flow, wOk, buildOk)
             IN  SetStore(r.store) /\ service' = r.service
    /\ pc' = "serving"
    /\ UNCHANGED <<now, secretExists, boot, ncalls, nfailed, first, last, config, disk, paths, tasks>>

\* A client that runs _initialize_service() on every call, with or without a
\* service.
Serve_reinit(c, sync) ==
    /\ last = NoLast
    /\ \E flow \in Flows(~service.has /\ secretExists /\ ~credentials.has),
          buildOk \in BOOLEAN :
          \E wOk \in Bools(~service.has /\ ~credentials.has /\ flow = "ok") :
             LET r == initialize_service(CurStore, service, now, flow, wOk, buildOk)
                 flows == r.store.flowRuns - flowRuns
                 found == [credentials |-> credentials, tokenFile |-> tokenFile,
                           service |-> service]
             IN  /\ SetStore(r.store)
                 /\ service' = r.service
                 /\ last' = IF r.service.has
                            THEN [Ended(ncalls + 1, c, credentials.has, flows, sync, r.service, now)
                                     EXCEPT !.steps = LoopSteps(flows) \o WorkerSteps(sync.reqs),
                                            !.before = found]
                            ELSE [Ended(ncalls + 1, c, credentials.has, flows, Unavailable, None, now)
                                     EXCEPT !.steps = LoopSteps(flows),
                                            !.before = found]
                 /\ nfailed' = IF r.service.has /\ sync.err = "" THEN nfailed ELSE nfailed + 1
                 /\ first' = IF first.watch /\ first.rec = NoLast /\ c.op = "read"
                                 /\ r.service.has /\ sync.reqs # <<>>
                              THEN [first EXCEPT !.rec = last']
                              ELSE first
    /\ ncalls' = ncalls + 1
    /\ UNCHANGED <<pc, now, secretExists, boot, config, disk, paths, tasks>>

\* The part search_docs, read_document and list_documents share, for a call
\* the adapter is free to take: without a service, initialise it; still
\* without one, raise; otherwise run the synchronous function in the thread
\* pool and hand back what it returns or raises.  sync is that function's
\* outcome.
Serve(c, sync) ==
    /\ last = NoLast
    /\ \E flow \in Flows(~service.has /\ secretExists /\ ~credentials.has),
          buildOk \in Bools(~service.has) :
          \E wOk \in Bools(~service.has /\ ~credentials.has /\ flow = "ok") :
             LET r == IF service.has
                      THEN [store |-> [CurStore EXCEPT !.audit = audit], service |-> service]
                      ELSE initialize_service(CurStore, service, now, flow, wOk, buildOk)
                 flows == r.store.flowRuns - flowRuns
                 found == [credentials |-> credentials, tokenFile |-> tokenFile,
                           service |-> service]
             IN  /\ SetStore(r.store)
                 /\ service' = r.service
                 /\ last' = IF r.service.has
                            THEN [Ended(ncalls + 1, c, credentials.has, flows, sync, r.service, now)
                                     EXCEPT !.steps = LoopSteps(flows) \o WorkerSteps(sync.reqs),
                                            !.before = found]
                            ELSE [Ended(ncalls + 1, c, credentials.has, flows, Unavailable, None, now)
                                     EXCEPT !.steps = LoopSteps(flows),
                                            !.before = found]
                 /\ nfailed' = IF r.service.has /\ sync.err = "" THEN nfailed ELSE nfailed + 1
                 /\ first' = IF first.watch /\ first.rec = NoLast /\ c.op = "read"
                                 /\ r.service.has /\ sync.reqs # <<>>
                              THEN [first EXCEPT !.rec = last']
                              ELSE first
    /\ ncalls' = ncalls + 1
    /\ UNCHANGED <<pc, now, secretExists, boot, config, disk, paths, tasks>>

search_docs ==
    \E query \in Queries, max_results \in MaxResults :
       \E o \in ListOutcomes(full_query(query)) :
          \E files \in IF o = "ok" THEN Listing(full_query(query), max_results) ELSE {<<>>} :
                 /\ pc = "serving" /\ ncalls < CallBound
                 /\ <<query, max_results>> \in SearchArgs
                 /\ Serve([Call("search", "", <<>>, max_results)
                              EXCEPT !.given = TRUE, !.text = query],
                          search_docs_sync(query, max_results, o, files))

read_document ==
    \E a \in ReadArgs, oMeta \in Outcomes :
       \E o1 \in Outs(oMeta = "ok") :
          \E o2 \in Outs(oMeta = "ok" /\ o1 = "http"), convOk \in Bools(oMeta = "ok" /\ o1 = "ok") :
             /\ pc = "serving" /\ ncalls < CallBound
             /\ a \in CallReadArgs
             /\ Serve(Call("read", a[1], a[2], 0),
                      read_document_sync(a[1], a[2], oMeta, o1, o2, convOk))

list_documents ==
    \E folder_id \in Folders, max_results \in ListMaxResults :
       \E o \in ListOutcomes(list_query(folder_id)) :
          \E files \in IF o = "ok" THEN Listing(list_query(folder_id), max_results) ELSE {<<>>} :
                 /\ pc = "serving" /\ ncalls < CallBound
                 /\ <<folder_id, max_results>> \in ListArgs
                 /\ Serve([Call("list", "", <<>>, max_results)
                              EXCEPT !.given = folder_id.given, !.text = folder_id.text],
                          list_documents_sync(folder_id, max_results, o, files))

\* gdocs_search, gdocs_read and gdocs_list hand the client's result (in its
\* envelope) or its exception to the transport, which ends the tool call.
Respond ==
    /\ last # NoLast
    /\ last' = NoLast
    /\ UNCHANGED <<pc, now, tokenFile, secretExists, credentials, service, nextTok,
                   refreshCalls, flowRuns, audit, boot, ncalls, nfailed, first,
                   config, disk, paths, tasks>>

Next ==
    \/ Tick
    \/ AuthManagerInit
    \/ DriveClientInit
    \/ search_docs
    \/ read_document
    \/ list_documents
    \/ Respond

Spec == Init /\ [][Next]_vars

SpecWatched == InitWatched /\ [][Next]_vars

\* ------------------------------------------------- the store and its files
\* The server's variables, which the store's use of its paths leaves alone.
serverVars ==
    <<pc, now, tokenFile, secretExists, credentials, service, nextTok,
      refreshCalls, flowRuns, audit, boot, ncalls, nfailed, first, last, tasks>>

\* A store is about to be constructed with one of the configurations, over a
\* disk that holds the configuration files and some of the client-secret and
\* token files.
InitPaths ==
    /\ Start({NoFile})
    /\ first = NoFirst
    /\ config \in Configs
    /\ disk \in {ConfigFiles \cup s \cup t : s \in SUBSET SecretFiles, t \in SUBSET SavedTokens}
    /\ paths = NoPaths
    /\ tasks = NoTasks

\* GoogleAuthManager.__init__ up to its call of _load_credentials.
LocatePaths ==
    /\ paths.stage = "new"
    /\ paths' = [auth_paths(config, disk) @@ NoPaths EXCEPT !.stage = "located"]
    /\ UNCHANGED <<config, disk>>
    /\ UNCHANGED serverVars

\* _load_credentials reading the token file when it exists.
LoadToken ==
    /\ paths.stage = "located"
    /\ paths' = [paths EXCEPT !.stage = "loaded",
                              !.read = IF Exists(paths.token_path, disk)
                                       THEN <<paths.token_path>> ELSE <<>>]
    /\ UNCHANGED <<config, disk>>
    /\ UNCHANGED serverVars

\* _authenticate, for want of a token file: the client-secret file read when
\* it exists, and the flow run with it.
ReadSecret ==
    /\ paths.stage = "loaded"
    /\ paths.read = <<>>
    /\ paths' = [paths EXCEPT !.stage = "authenticated",
                              !.read = IF Exists(paths.credentials_path, disk)
                                       THEN <<paths.credentials_path>> ELSE <<>>]
    /\ UNCHANGED <<config, disk>>
    /\ UNCHANGED serverVars

\* _save_token after a refresh or a flow: the token file is written.
SaveToken ==
    /\ paths.stage \in {"loaded", "authenticated"}
    /\ paths.read # <<>>
    /\ disk' = disk \cup {Resolve(paths.token_path)}
    /\ paths' = [paths EXCEPT !.stage = "saved", !.written = <<paths.token_path>>]
    /\ UNCHANGED config
    /\ UNCHANGED serverVars

NextPaths ==
    \/ LocatePaths
    \/ LoadToken
    \/ ReadSecret
    \/ SaveToken

SpecPaths == InitPaths /\ [][NextPaths]_vars

\* ------------------------------------------------------- concurrent calls
\* Tool calls pending together on the one event loop.  A coroutine runs on
\* the loop thread from one await to the next, and search_docs, read_document
\* and list_documents have one await, that of run_in_executor: the check of
\* self.service and the call of self._initialize_service() before it run
\* without giving up the loop, the function handed to the executor runs on a
\* worker thread beside the loop.
Ops == {"search", "read", "list"}

\* The coroutine the loop runs while call i is inside an initialisation that
\* is awaited: none, the loop is free for the other coroutines.
Holder_awaited(i) == 0

\* The coroutine the loop runs while call i is inside the synchronous call
\* self._initialize_service(): that of call i.
Holder(i) == i

\* A run whose calls are pending together starts like any other.
InitPending == Start(TokenFiles) /\ first = NoFirst /\ Unlocated

\* The transport receives tool call i and schedules its coroutine.
Receive(i) ==
    /\ pc = "serving"
    /\ tasks.calls[i].at = "none"
    /\ \A j \in 1..(i - 1) : tasks.calls[j].at # "none"
    /\ \E op \in Ops :
          tasks' = [tasks EXCEPT !.calls[i] =
                       [NoTask EXCEPT !.at = "ready", !.op = op,
                                      !.waited = \E j \in 1..MaxPending :
                                                     tasks.calls[j].at = "init"]]
    /\ UNCHANGED <<pc, now, tokenFile, secretExists, credentials, service, nextTok,
                   refreshCalls, flowRuns, audit, boot, ncalls, nfailed, first, last,
                   config, disk, paths>>

\* The loop, free, runs the coroutine of call i up to its await or into
\* _initialize_service(): with a service it hands the *_sync function to the
\* executor, without one it enters the initialisation.
Enter(i) ==
    /\ tasks.calls[i].at = "ready"
    /\ tasks.loop = 0
    /\ tasks' = IF service.has
                THEN [tasks EXCEPT !.calls[i].at = "worker"]
                ELSE [tasks EXCEPT !.calls[i].at = "init", !.loop = Holder(i)]
    /\ UNCHANGED <<pc, now, tokenFile, secretExists, credentials, service, nextTok,
                   refreshCalls, flowRuns, audit, boot, ncalls, nfailed, first, last,
                   config, disk, paths>>

\* _initialize_service() of call i returns: the service is set when a
\* credential was had and the build succeeded, and the function is handed to
\* the executor; without a service the coroutine raises.
Initialised(i) ==
    /\ tasks.calls[i].at = "init"
    /\ \E flow \in Flows(secretExists /\ ~credentials.has), buildOk \in BOOLEAN :
          \E wOk \in Bools(~credentials.has /\ flow = "ok") :
             LET r == initialize_service(CurStore, service, now, flow, wOk, buildOk)
             IN  /\ SetStore(r.store)
                 /\ service' = r.service
                 /\ tasks' = [tasks EXCEPT
                                 !.loop = 0,
                                 !.built = IF r.service.has THEN @ + 1 ELSE @,
                                 !.calls[i].at = IF r.service.has THEN "worker" ELSE "done",
                                 !.calls[i].err = IF r.service.has THEN "" ELSE "unavailable"]
    /\ UNCHANGED <<pc, now, secretExists, boot, ncalls, nfailed, first, last,
                   config, disk, paths>>

\* The worker thread runs the *_sync function of call i, which sends its
\* requests through self.service, and the coroutine returns.
Finish(i) ==
    /\ tasks.calls[i].at = "worker"
    /\ tasks' = [tasks EXCEPT !.calls[i].at = "done", !.calls[i].svc = service]
    /\ UNCHANGED <<pc, now, tokenFile, secretExists, credentials, service, nextTok,
                   refreshCalls, flowRuns, audit, boot, ncalls, nfailed, first, last,
                   config, disk, paths>>

NextPending ==
    \/ Tick
    \/ AuthManagerInit
    \/ DriveClientInit
    \/ \E i \in 1..MaxPending : Receive(i)
    \/ \E i \in 1..MaxPending : Enter(i)
    \/ \E i \in 1..MaxPending : Initialised(i)
    \/ \E i \in 1..MaxPending : Finish(i)

SpecPending == InitPending /\ [][NextPending]_vars

\* ----------------------------------------------------------------- claims
\* The store was constructed over a token file holding an expired credential
\* with a refresh token.
BootExpiredRefreshable ==
    /\ pc # "boot"
    /\ boot.file.st = "cred"
    /\ Expired(boot.file.cred, boot.at)
    /\ boot.file.cred.rt

\* The store was constructed over a token file holding a credential that was
\* not expired.
BootFresh ==
    /\ pc # "boot"
    /\ boot.file.st = "cred"
    /\ ~Expired(boot.file.cred, boot.at)

\* Refreshes and authorizations that succeeded so far.
Mutations == audit.refreshOks + audit.flowOks

\* C1: every remote request of search, list or read is sent with a
\* credential that came from the Credential Store and is not expired as the
\* request is sent; a call that cannot get such a credential sends nothing.
C1_RequestsCarryFreshCredential ==
    last.reqs # <<>> =>
        /\ credentials.has
        /\ last.tok = credentials.tok
        /\ ~last.stale

\* C2 as claimed: over an expired credential with a refresh token, obtaining
\* the credential makes exactly one refresh call, and once the refresh has
\* succeeded the token file holds the refreshed credential.
C2_OneRefreshThenPersisted ==
    BootExpiredRefreshable =>
        /\ refreshCalls = 1
        /\ (audit.refreshOks = 1 => tokenFile = FileOf(credentials))

\* C2 as amended: exactly one refresh call; after a successful refresh
\* exactly one write of the token file has been attempted, the store holds the
\* refreshed credential, and the file holds it when the write succeeded and
\* its old content when the write failed.
C2_OneRefreshWriteAttempted ==
    BootExpiredRefreshable =>
        /\ refreshCalls = 1
        /\ (audit.refreshOks = 1 =>
               /\ audit.writes + audit.writeFails = 1
               /\ credentials.has
               /\ credentials.tok # boot.file.cred.tok
               /\ Valid(credentials, boot.at)
               /\ (audit.writes = 1 => tokenFile = FileOf(credentials))
               /\ (audit.writeFails = 1 => tokenFile = boot.file))

\* C2 witness: the refresh succeeded, the refreshed credential was written
\* and the client's service was built around it.
C2_Witness ==
    /\ BootExpiredRefreshable
    /\ pc = "serving"
    /\ audit.refreshOks = 1
    /\ audit.writes = 1
    /\ tokenFile = FileOf(credentials)
    /\ service = credentials

\* C3: over a token file holding a credential that is not expired, obtaining
\* the credential returns that credential, starts no authorization flow and
\* makes no refresh call.
C3_FreshTokenReturnedAsIs ==
    BootFresh =>
        /\ credentials = boot.file.cred
        /\ flowRuns = 0
        /\ refreshCalls = 0
        /\ (service.has => service = boot.file.cred)

\* C3 witness: such a credential was loaded and handed to the client, with
\* the client-secret file there for a flow to use.
C3_Witness ==
    /\ BootFresh
    /\ pc = "serving"
    /\ secretExists
    /\ service = boot.file.cred
    /\ ncalls > 0

\* C4 as claimed: an error caught while loading, refreshing or authorizing
\* leaves the store without a credential, and obtaining the credential after
\* an error during construction yields none.
C4_ErrorMeansNoCredential ==
    /\ (audit.fault # "" => ~credentials.has)
    /\ (pc = "serving" /\ ncalls = 0 /\ boot.fault # "" => ~credentials.has)

\* C4 as amended: an error caught while loading, refreshing or authorizing
\* leaves the store without a credential; get_credentials after an error
\* during construction runs the authorization again and yields the newly
\* authorized credential when that succeeds, none otherwise.
C4_ErrorLeavesStoreEmpty ==
    /\ (audit.fault # "" => ~credentials.has)
    /\ (pc = "auth" /\ boot.fault # "" => ~credentials.has /\ ~service.has)
    /\ (pc = "serving" /\ ncalls = 0 /\ boot.fault # "" =>
           /\ (credentials.has <=> secretExists /\ audit.fault = "")
           /\ (credentials.has =>
                  /\ audit.flowOks = 1
                  /\ credentials.tok >= 2
                  /\ credentials.tok = nextTok - 1))

\* C4 witness: the token file could not be loaded and the authorization
\* that get_credentials then ran failed as well.
C4_Witness ==
    /\ pc = "serving"
    /\ boot.fault = "load"
    /\ audit.fault = "flow"
    /\ ~credentials.has

\* C5 as claimed: a call that arrives while the store holds no credential
\* fails with the service-unavailable error, sends no request and starts no
\* authorization flow.
C5_NoCredentialHardFailure ==
    (last.op # "" /\ ~last.hadCred) =>
        /\ last.err = "unavailable"
        /\ last.reqs = <<>>
        /\ last.flows = 0

\* C5 as amended: a call that arrives while the store holds no credential
\* starts one authorization flow when the client-secret file exists and none
\* when it is missing; it fails with the service-unavailable error, having
\* sent no request, unless that flow succeeded and the service was built, and
\* then it proceeds with the newly authorized credential.
C5_NoCredentialReauthorizesOnce ==
    (last.op # "" /\ ~last.hadCred) =>
        /\ last.flows = (IF secretExists THEN 1 ELSE 0)
        /\ (last.err = "unavailable" <=> ~service.has)
        /\ (last.err = "unavailable" => last.reqs = <<>>)
        /\ (~credentials.has => last.err = "unavailable")
        /\ (last.err # "unavailable" =>
               /\ audit.fault = ""
               /\ credentials.has
               /\ last.tok = credentials.tok
               /\ last.reqs # <<>>)

\* C5 witness: such a call ran the flow, the flow failed, and the call ended
\* with the service-unavailable error.
C5_Witness ==
    /\ last.op # ""
    /\ ~last.hadCred
    /\ last.flows = 1
    /\ last.err = "unavailable"
    /\ last.reqs = <<>>

\* C6 as claimed: once a refresh or an authorization has succeeded, the token
\* file holds exactly the credential held in memory.
C6_FileEqualsMemory ==
    Mutations > 0 => tokenFile = FileOf(credentials)

\* C6 as amended: every successful refresh or authorization is followed by
\* one attempt to write the token file; when the write succeeded the file
\* holds exactly the credential held in memory, and when it failed the file
\* keeps its old content and differs from the credential in memory.
C6_FileEqualsMemoryWhenWritten ==
    /\ audit.writes + audit.writeFails = Mutations
    /\ (Mutations > 0 /\ audit.writeFails = 0 => tokenFile = FileOf(credentials))
    /\ (audit.writeFails > 0 =>
           /\ credentials.has
           /\ tokenFile = boot.file
           /\ tokenFile # FileOf(credentials))

\* C6 witness: an authorization succeeded and its credential is on disk.
C6_Witness ==
    /\ audit.flowOks = 1
    /\ audit.writes = 1
    /\ credentials.has
    /\ tokenFile = FileOf(credentials)
    /\ boot.file # tokenFile

\* The spellings of "markdown" and "html" among the formats read is called
\* with.
MarkdownSpellings == {FmtMarkdown, <<"M", "a", "r", "k", "d", "o", "w", "n">>}

HtmlSpellings == {FmtHtml, <<"H", "T", "M", "L">>}

\* The call being answered is a read that got as far as the API, and a read
\* whose metadata request was answered.
ReadSent == last.op = "read" /\ last.reqs # <<>>

ReadWithMetadata == ReadSent /\ last.reqs[1].out = "ok"

\* The request a read is expected to send after the metadata request.
IsExport(rq, mime) == rq.kind = "export" /\ rq.mime = mime

\* C7: read asks for the metadata first and picks the export from the
\* metadata's type alone: a document as HTML, converted, for "markdown", as
\* raw HTML for "html", as plain text for any other format, whatever the
\* case; a spreadsheet as CSV and a presentation as plain text whatever the
\* format; any other file as raw bytes, decoded, with the placeholder when
\* they are not UTF-8.  The content returned carries the id, name, type and
\* modified time of the metadata.
C7_ReadExportsByType ==
    ReadSent =>
        LET m == Metadata(last.id)
            text == last.content.content
        IN  /\ last.reqs[1].kind = "get"
            /\ (last.reqs[1].out # "ok" => Len(last.reqs) = 1 /\ last.err # "")
            /\ (last.reqs[1].out = "ok" =>
                   /\ Len(last.reqs) >= 2
                   /\ (m.mimeType = MimeDocument /\ last.fmt \in MarkdownSpellings =>
                          /\ IsExport(last.reqs[2], "text/html")
                          /\ (last.err = "" => last.conv # "none"))
                   /\ (m.mimeType = MimeDocument /\ last.fmt \in HtmlSpellings =>
                          /\ IsExport(last.reqs[2], "text/html")
                          /\ last.conv = "none"
                          /\ (last.err = "" => text = ExportBody(last.id, "text/html").text))
                   /\ (m.mimeType = MimeDocument
                          /\ last.fmt \notin MarkdownSpellings \cup HtmlSpellings =>
                          /\ IsExport(last.reqs[2], "text/plain")
                          /\ last.conv = "none"
                          /\ (last.err = "" => text = ExportBody(last.id, "text/plain").text))
                   /\ (m.mimeType = MimeSpreadsheet =>
                          /\ IsExport(last.reqs[2], "text/csv")
                          /\ last.conv = "none")
                   /\ (m.mimeType = MimePresentation =>
                          /\ IsExport(last.reqs[2], "text/plain")
                          /\ last.conv = "none")
                   /\ (m.mimeType \notin {MimeDocument, MimeSpreadsheet, MimePresentation} =>
                          /\ Len(last.reqs) = 2
                          /\ last.reqs[2].kind = "get_media"
                          /\ (last.reqs[2].out = "ok" =>
                                 /\ last.err = ""
                                 /\ text = (IF MediaBody(last.id).utf8
                                             THEN MediaBody(last.id).text
                                             ELSE BinaryPlaceholder))))
            /\ (last.err = "" =>
                   /\ last.content.id = m.id
                   /\ last.content.name = m.name
                   /\ last.content.type =
                         (CASE m.mimeType = MimeDocument -> "document"
                            [] m.mimeType = MimeSpreadsheet -> "spreadsheet"
                            [] m.mimeType = MimePresentation -> "presentation"
                            [] OTHER -> "file")
                   /\ last.content.modified =
                         (IF "modifiedTime" \in m.opt THEN m.modifiedTime ELSE ""))

\* C7 witness: the document read as "HTML" came back as its raw HTML export.
C7_Witness ==
    /\ ReadWithMetadata
    /\ last.id = "d1"
    /\ last.fmt = <<"H", "T", "M", "L">>
    /\ last.err = ""
    /\ last.content.content = <<"<p>", "Hello", "<b>", "World", "</b>", "</p>">>
    /\ last.content.modified = "t-d1"

\* C8: the content of a document read as "markdown" holds none of the HTML
\* tags of the export, whether the conversion returned or raised.
C8_MarkdownHasNoRawTags ==
    (ReadWithMetadata /\ last.err = ""
       /\ Metadata(last.id).mimeType = MimeDocument
       /\ last.fmt \in MarkdownSpellings) =>
        ~HasTag(last.content.content)

\* The spreadsheet and presentation reads whose metadata request was
\* answered.
SheetRead == ReadWithMetadata /\ Metadata(last.id).mimeType = MimeSpreadsheet

SlidesRead == ReadWithMetadata /\ Metadata(last.id).mimeType = MimePresentation

\* C9 as claimed: when the CSV export of a spreadsheet fails, read sends
\* exactly one more export request, for plain text, and returns that text;
\* with the metadata fetched, read fails only when both exports fail.
C9_CsvFailureFallsBack ==
    SheetRead =>
        /\ (last.reqs[2].out # "ok" =>
               /\ Len(last.reqs) = 3
               /\ IsExport(last.reqs[3], "text/plain")
               /\ (last.reqs[3].out = "ok" =>
                      /\ last.err = ""
                      /\ last.content.content = ExportBody(last.id, "text/plain").text))
        /\ (last.err # "" =>
               /\ last.reqs[2].out # "ok"
               /\ Len(last.reqs) = 3
               /\ last.reqs[3].out # "ok")

\* C9 as amended: when the CSV export fails with HttpError, read sends
\* exactly one more export request, for plain text, and returns that text
\* when it succeeds; with the metadata fetched, read fails when the CSV
\* export fails with another exception, after which nothing more is sent, or
\* when it fails with HttpError and the plain-text export fails too.
C9_CsvHttpErrorFallsBack ==
    SheetRead =>
        /\ IsExport(last.reqs[2], "text/csv")
        /\ (last.reqs[2].out = "ok" =>
               /\ Len(last.reqs) = 2
               /\ last.err = ""
               /\ last.content.content = ExportBody(last.id, "text/csv").text)
        /\ (last.reqs[2].out = "other" => Len(last.reqs) = 2 /\ last.err = "raw")
        /\ (last.reqs[2].out = "http" =>
               /\ Len(last.reqs) = 3
               /\ IsExport(last.reqs[3], "text/plain")
               /\ (last.reqs[3].out = "ok" =>
                      /\ last.err = ""
                      /\ last.content.content = ExportBody(last.id, "text/plain").text)
               /\ (last.reqs[3].out = "http" => last.err = "runtime")
               /\ (last.reqs[3].out = "other" => last.err = "raw"))

\* C9 witness: the CSV export raised HttpError and the read returned the
\* plain-text export.
C9_Witness ==
    /\ SheetRead
    /\ last.reqs[2].out = "http"
    /\ Len(last.reqs) = 3
    /\ last.reqs[3].out = "ok"
    /\ last.err = ""
    /\ last.content.content = <<"Hello", "World">>
    /\ last.content.type = "spreadsheet"

\* C10 as claimed: a failing plain-text export of a presentation never makes
\* read fail: read returns the placeholder sentence and sends no second
\* export request.
C10_SlidesFailureGivesPlaceholder ==
    SlidesRead =>
        /\ Len(last.reqs) = 2
        /\ (last.reqs[2].out # "ok" =>
               /\ last.err = ""
               /\ last.content.content = PresentationPlaceholder)

\* C10 as amended: a plain-text export of a presentation that fails with
\* HttpError does not make read fail: read returns the placeholder sentence;
\* one that fails with another exception makes read fail with it; either
\* way no second export request is sent.
C10_SlidesHttpErrorGivesPlaceholder ==
    SlidesRead =>
        /\ Len(last.reqs) = 2
        /\ IsExport(last.reqs[2], "text/plain")
        /\ (last.reqs[2].out = "http" =>
               /\ last.err = ""
               /\ last.content.content = PresentationPlaceholder
               /\ last.content.type = "presentation")
        /\ (last.reqs[2].out = "other" => last.err = "raw")
        /\ (last.reqs[2].out = "ok" =>
               /\ last.err = ""
               /\ last.content.content = ExportBody(last.id, "text/plain").text)

\* C10 witness: the export raised HttpError and the read returned the
\* placeholder.
C10_Witness ==
    /\ SlidesRead
    /\ last.reqs[2].out = "http"
    /\ last.err = ""
    /\ last.content.content = PresentationPlaceholder
    /\ last.content.id = "p1"

\* A call that reached the API, and the last request it sent.
CallSent == last.op # "" /\ last.reqs # <<>>

FinalRq == last.reqs[Len(last.reqs)]

\* The prefix of the RuntimeError each operation raises.
PrefixOf(op) ==
    CASE op = "search" -> "Failed to search Google Drive"
      [] op = "list" -> "Failed to list documents from Google Drive"
      [] OTHER -> "Failed to read document from Google Drive"

\* The request counts of C11: search and list send one request; read sends
\* one metadata request and then at most two export or content requests; no
\* request that failed is sent again.
NoRetries ==
    /\ (last.op \in {"search", "list"} =>
           Len(last.reqs) = 1 /\ last.reqs[1].kind = "list")
    /\ (last.op = "read" =>
           /\ Len(last.reqs) <= 3
           /\ last.reqs[1].kind = "get"
           /\ \A i \in 2..Len(last.reqs) : last.reqs[i].kind \in {"export", "get_media"})
    /\ \A i, j \in DOMAIN last.reqs :
          (i < j /\ last.reqs[i].out # "ok") =>
              /\ j = i + 1
              /\ <<last.reqs[i].kind, last.reqs[i].mime>> # <<last.reqs[j].kind, last.reqs[j].mime>>

\* C11 as claimed: a failure of a remote request that no spreadsheet or
\* presentation fallback recovers reaches the caller as a RuntimeError
\* carrying the error's message, and no failed request is sent again.
C11_FailuresBecomeRuntimeError ==
    CallSent =>
        /\ NoRetries
        /\ (FinalRq.out # "ok"
              /\ ~(last.op = "read" /\ Metadata(last.id).mimeType = MimePresentation
                     /\ FinalRq.kind = "export") =>
               /\ last.err = "runtime"
               /\ last.msg = <<PrefixOf(last.op), HttpMessage(FinalRq)>>)

\* C11 as amended: an HttpError of a remote request that is not recovered by
\* the spreadsheet or presentation fallback, nor by the error placeholder of
\* a raw-file download, reaches the caller as a RuntimeError carrying the
\* error's message; an HttpError of a raw-file download is returned as
\* placeholder content; any other exception reaches the caller as it is; a
\* RuntimeError is raised for nothing else, and no failed request is sent
\* again.
C11_HttpErrorsBecomeRuntimeError ==
    CallSent =>
        /\ NoRetries
        /\ (FinalRq.out = "http" /\ FinalRq.kind \in {"list", "get"} =>
               /\ last.err = "runtime"
               /\ last.msg = <<PrefixOf(last.op), HttpMessage(FinalRq)>>)
        /\ (FinalRq.out = "http" /\ FinalRq.kind = "export"
              /\ Metadata(last.id).mimeType # MimePresentation =>
               /\ last.err = "runtime"
               /\ last.msg = <<PrefixOf(last.op), HttpMessage(FinalRq)>>)
        /\ (FinalRq.out = "http" /\ FinalRq.kind = "get_media" =>
               /\ last.err = ""
               /\ last.content.content = ErrorPlaceholder)
        /\ (FinalRq.out = "other" => last.err = "raw" /\ last.msg = <<>>)
        /\ (last.err = "runtime" => FinalRq.out = "http")
        /\ (FinalRq.out = "ok" => last.err = "")

\* C11 witness: a read of a document whose export raised HttpError ended in
\* the RuntimeError that carries the export's error.
C11_Witness ==
    /\ CallSent
    /\ last.op = "read"
    /\ last.id = "d1"
    /\ Len(last.reqs) = 2
    /\ FinalRq.out = "http"
    /\ last.err = "runtime"
    /\ last.msg = <<"Failed to read document from Google Drive", "HttpError export text/html">>

\* A search, and a list, that came back with descriptors.
SearchDone == last.op = "search" /\ last.reqs # <<>> /\ last.err = ""

ListDone == last.op = "list" /\ last.reqs # <<>> /\ last.err = ""

\* Each descriptor returned stands for one entry of the response, in the
\* order of the response.
OnePerEntryInOrder ==
    /\ Len(last.items) = Len(last.resp)
    /\ \A i \in DOMAIN last.items :
          /\ last.items[i].id = Metadata(last.resp[i]).id
          /\ last.items[i].name = Metadata(last.resp[i]).name

\* C12: whatever the query and max_results, search returns no more than
\* max_results descriptors, one per entry of the response and in its order,
\* and the filter of the request keeps the results to documents,
\* spreadsheets and presentations in whose name or full text the query is
\* found.
C12_SearchBoundedOrderedFiltered ==
    SearchDone =>
        /\ Len(last.items) <= last.max
        /\ OnePerEntryInOrder
        /\ \A i \in DOMAIN last.resp :
              /\ Metadata(last.resp[i]).mimeType
                    \in {MimeDocument, MimeSpreadsheet, MimePresentation}
              /\ \E w \in NameTerms(last.resp[i]) \cup TextTerms(last.resp[i]) :
                    last.text = <<w>>

\* The part of C12 that stands for every query: the bound and the order.
SearchBoundedOrdered ==
    SearchDone => Len(last.items) <= last.max /\ OnePerEntryInOrder

\* The whole of C12 for the queries without an apostrophe.
SearchFilteredWhenPlain ==
    (SearchDone /\ \A i \in DOMAIN last.text : last.text[i] # Quote) =>
        C12_SearchBoundedOrderedFiltered

\* The optional field key of the descriptor built from the entry of file id:
\* the entry's value, the empty string when the entry has none.
FieldOrEmpty(id, key, value) == IF key \in Metadata(id).opt THEN value ELSE ""

\* What C13 says of the i-th descriptor but for its type: the id and name of
\* its entry, and modified, description and url there on every descriptor,
\* empty when the entry omits them.
CarriesEntry(i) ==
    LET entry == Metadata(last.resp[i])
        d == last.items[i]
    IN  /\ d.id = entry.id
        /\ d.name = entry.name
        /\ DOMAIN d = {"id", "name", "type", "modified", "description", "url"}
        /\ d.modified = FieldOrEmpty(last.resp[i], "modifiedTime", entry.modifiedTime)
        /\ d.description = FieldOrEmpty(last.resp[i], "description", entry.description)
        /\ d.url = FieldOrEmpty(last.resp[i], "webViewLink", entry.webViewLink)

\* C13 as claimed: every descriptor search or list returns carries the id
\* and name of its entry and a type among document, spreadsheet,
\* presentation and file; its modified, description and url are there,
\* empty when the entry omits them.
C13_DescriptorsTypedAndComplete ==
    (SearchDone \/ ListDone) =>
        /\ Len(last.items) = Len(last.resp)
        /\ \A i \in DOMAIN last.items :
              /\ CarriesEntry(i)
              /\ last.items[i].type \in {"document", "spreadsheet", "presentation", "file"}

\* C13 as amended: every descriptor search or list returns carries the id
\* and name of its entry and the type its MIME type is classified as, one of
\* document, spreadsheet, presentation, folder and file; its modified,
\* description and url are there, empty when the entry omits them.
C13_DescriptorsClassifiedAndComplete ==
    (SearchDone \/ ListDone) =>
        /\ Len(last.items) = Len(last.resp)
        /\ \A i \in DOMAIN last.items :
              /\ CarriesEntry(i)
              /\ last.items[i].type =
                    (CASE Metadata(last.resp[i]).mimeType = MimeDocument -> "document"
                       [] Metadata(last.resp[i]).mimeType = MimeSpreadsheet -> "spreadsheet"
                       [] Metadata(last.resp[i]).mimeType = MimePresentation -> "presentation"
                       [] Metadata(last.resp[i]).mimeType = MimeFolder -> "folder"
                       [] OTHER -> "file")

\* C13 witness: a search returned the spreadsheet, whose entry has no
\* description.
C13_Witness ==
    /\ SearchDone
    /\ Len(last.items) >= 1
    /\ last.items[1] = [id |-> "s1", name |-> "Budget", type |-> "spreadsheet",
                        modified |-> "t-s1", description |-> "",
                        url |-> "https://view/s1"]

\* C13 as claimed holds for the calls whose query or folder id has no
\* apostrophe.
DescriptorsTypedWhenPlain ==
    (\A i \in DOMAIN last.text : last.text[i] # Quote) => C13_DescriptorsTypedAndComplete

\* A list that reached the API, the q it sent, and the type filter written
\* out.
ListSent == last.op = "list" /\ last.reqs # <<>>

ListQ == last.reqs[1].q

TypeFilter ==
    <<"(", "mimeType", "=", "'", "application/vnd.google-apps.document", "'",
      "or", "mimeType", "=", "'", "application/vnd.google-apps.spreadsheet", "'",
      "or", "mimeType", "=", "'", "application/vnd.google-apps.presentation", "'", ")">>

IsSupported(id) ==
    Metadata(id).mimeType \in {MimeDocument, MimeSpreadsheet, MimePresentation}

InFolder(id, text) == \E w \in Parents(id) : text = <<w>>

\* A list the API answered with no files returns the empty list.
EmptyListIsNoError ==
    (ListSent /\ last.reqs[1].out = "ok" /\ last.resp = <<>>) =>
        last.err = "" /\ last.items = <<>>

\* C14 as claimed: list without folder_id sends a query with no parent
\* clause and returns the empty list, not an error, when the API reports no
\* files; a folder_id that is given adds exactly the restriction to that
\* parent to the same type filter.
C14_FolderScopesList ==
    /\ EmptyListIsNoError
    /\ (ListSent /\ ~last.given =>
           /\ \A i \in DOMAIN ListQ : ListQ[i] # "parents"
           /\ \A id \in DriveFiles : Matches(ListQ, id) <=> IsSupported(id))
    /\ (ListSent /\ last.given =>
           \A id \in DriveFiles :
              Matches(ListQ, id) <=> IsSupported(id) /\ InFolder(id, last.text))

\* C14 as amended: list without folder_id, or with the empty string, sends
\* the type filter alone and returns the empty list, not an error, when the
\* API reports no files; a folder_id that is given and not empty is put,
\* as it is, between apostrophes in a parent clause joined to the same type
\* filter, which adds exactly the restriction to that parent when the
\* folder_id has no apostrophe.
C14_NonEmptyFolderScopesList ==
    /\ EmptyListIsNoError
    /\ (ListSent /\ (~last.given \/ last.text = <<>>) =>
           /\ ListQ = TypeFilter
           /\ \A id \in DriveFiles : Matches(ListQ, id) <=> IsSupported(id))
    /\ (ListSent /\ last.given /\ last.text # <<>> =>
           /\ ListQ = TypeFilter \o <<"and", "'">> \o last.text \o <<"'", "in", "parents">>
           /\ ((\A i \in DOMAIN last.text : last.text[i] # "'") =>
                  \A id \in DriveFiles :
                     Matches(ListQ, id) <=> IsSupported(id) /\ InFolder(id, last.text)))

\* C14 witness: list called without arguments, which the API answered with
\* no files, returned the empty list.
C14_Witness ==
    /\ ListSent
    /\ ~last.given
    /\ last.max = 20
    /\ last.reqs[1].pageSize = 20
    /\ last.reqs[1].out = "ok"
    /\ last.resp = <<>>
    /\ last.err = ""
    /\ last.items = <<>>

\* The store was constructed over a token file that calls for the
\* interactive authorization: none, or a credential that is not valid and
\* cannot be refreshed.
InitialAuthRequired ==
    /\ pc # "boot"
    /\ \/ boot.file = NoFile
       \/ /\ boot.file.st = "cred"
          /\ ~Valid(boot.file.cred, boot.at)
          /\ ~boot.file.cred.rt

\* The construction is over and the tools are registered.
Constructed == pc = "serving"

\* Construction is eager and in order: the store is built, with the loading,
\* refreshing or authorizing that the token file calls for, then the client,
\* and no tool is served before both are.
EagerInOrder ==
    /\ (pc = "boot" => ~credentials.has /\ ~service.has /\ flowRuns = 0 /\ refreshCalls = 0)
    /\ (pc = "auth" => ~service.has)
    /\ (pc # "serving" => ncalls = 0 /\ last = NoLast)
    /\ (BootExpiredRefreshable => refreshCalls = 1)
    /\ (InitialAuthRequired /\ secretExists => flowRuns >= 1)
    /\ (BootFresh => credentials.has)

\* C15 as claimed: construction builds the store, then the client, before
\* any tool is registered, and no adapter comes out of a construction in
\* which the authorization was required and did not succeed.
C15_FailedAuthFailsConstruction ==
    /\ EagerInOrder
    /\ (Constructed /\ ncalls = 0 /\ InitialAuthRequired => audit.flowOks >= 1)

\* C15 as amended: construction builds the store, then the client, before
\* any tool is registered, and it always completes: an authorization that
\* was required and did not succeed leaves a constructed adapter whose
\* client has no service; only when the authorization could not start for
\* want of the client-secret file, the credential loaded from the token
\* file is kept, invalid as it is, and the service built around it.
C15_ConstructionAlwaysCompletes ==
    /\ EagerInOrder
    /\ (pc = "boot" => ENABLED AuthManagerInit)
    /\ (pc = "auth" => ENABLED DriveClientInit)
    /\ (Constructed /\ ncalls = 0 /\ InitialAuthRequired /\ audit.flowOks = 0 =>
           /\ (boot.file = NoFile \/ secretExists => ~credentials.has /\ ~service.has)
           /\ (boot.file # NoFile /\ ~secretExists =>
                  /\ credentials = boot.file.cred
                  /\ service \in {None, boot.file.cred}))

\* C15 witness: with no token file and no client-secret file the adapter is
\* constructed, without credential and without service.
C15_Witness ==
    /\ Constructed
    /\ ncalls = 0
    /\ boot.file = NoFile
    /\ ~secretExists
    /\ ~credentials.has
    /\ ~service.has

\* Every request of the call being answered got its response.
AllAnswered == \A i \in DOMAIN last.reqs : last.reqs[i].out = "ok"

\* The call being answered returned what its operation returns: read the
\* content of the file asked for, search and list one descriptor for each
\* entry of the response.
NormalResult ==
    /\ last.err = ""
    /\ (last.op = "read" =>
           /\ last.content.id = last.id
           /\ last.content.name = Metadata(last.id).name
           /\ last.content.content # <<>>)
    /\ (last.op \in {"search", "list"} =>
           /\ Len(last.items) = Len(last.resp)
           /\ \A i \in DOMAIN last.items : last.items[i].id = last.resp[i])

\* C16: a tool call that fails ends in an error of its own and fails alone:
\* the adapter stays in service and hands the error over, and after whatever
\* calls failed, a call that sends its requests and gets them answered
\* returns its normal result.
C16_CallsFailIndependently ==
    /\ (last.op # "" =>
           /\ pc = "serving"
           /\ ENABLED Respond
           /\ last.n = ncalls
           /\ (last.err # "" => nfailed >= 1 /\ last.content = NoContent /\ last.items = <<>>))
    /\ (nfailed >= 1 => pc = "serving")
    /\ (last.op # "" /\ last.reqs # <<>> /\ AllAnswered => NormalResult)
    /\ nfailed <= ncalls

\* C16 witness: the first call failed and the second, whose requests were
\* answered, returned its result.
C16_Witness ==
    /\ last.n = 2
    /\ nfailed = 1
    /\ last.op = "read"
    /\ last.reqs # <<>>
    /\ AllAnswered
    /\ NormalResult
    /\ last.content.content = <<"a,b">>

\* The call being answered is a read that reached the API after the first
\* read that did, for the same document and format, and the API answered its
\* requests as it answered those of the first; the conversion of the exported
\* text, a function of that text, went the same way.
SameReadAgain ==
    /\ first.rec # NoLast
    /\ last.op = "read"
    /\ last.n > first.rec.n
    /\ last.id = first.rec.id
    /\ last.fmt = first.rec.fmt
    /\ last.reqs = first.rec.reqs
    /\ last.conv = first.rec.conv

\* C17: two reads of the same document in the same format that get the same
\* responses return the same Document Content, or raise the same error,
\* whatever calls came before and between them.
C17_ReadIdempotent ==
    SameReadAgain =>
        /\ last.content = first.rec.content
        /\ last.err = first.rec.err
        /\ last.msg = first.rec.msg

\* A read returns its content, another call comes and fails, the credential
\* of the service expires, and the same read returns the same content.
C17_Witness ==
    /\ SameReadAgain
    /\ last.n = first.rec.n + 2
    /\ nfailed = 1
    /\ last.stale /\ ~first.rec.stale
    /\ last.err = ""
    /\ last.content.content # <<>>
    /\ last.content = first.rec.content

\* Every request the call being answered sent to the API ran on a worker of
\* the pool.
RequestsRunOnWorker ==
    \A i \in DOMAIN last.steps :
        last.steps[i].what # "flow" => last.steps[i].thread = "worker"

\* C18: no blocking step taken on behalf of a search, read or list runs on
\* the thread of the event loop: the requests and the authorization flows
\* all run on a worker of the pool.
C18_NoBlockingCallOnEventLoop ==
    \A i \in DOMAIN last.steps : last.steps[i].thread = "worker"

\* The store never uses a path given by an override key.
OverridesAreIgnored ==
    paths.stage # "new" =>
        /\ paths.credentials_path # CustomCredentials
        /\ paths.token_path # CustomToken
        /\ Name(paths.credentials_path) = "credentials.json"
        /\ Name(paths.token_path) = "token.json"
        /\ \A i \in DOMAIN paths.read : paths.read[i] \notin {CustomCredentials, CustomToken}

\* C19: with the override keys given, the store reads the client secret at
\* the configured credentials path, and reads and writes the token at the
\* configured token path.
C19_ConfiguredPathsAreUsed ==
    paths.stage # "new" =>
        /\ (config.token_path.given =>
               /\ paths.token_path = config.token_path.path
               /\ (paths.written # <<>> => paths.written = <<config.token_path.path>>))
        /\ (config.credentials_path.given =>
               paths.credentials_path = config.credentials_path.path)

\* The credential, token file and service handle are those the call being
\* answered found.
LeftAsFound ==
    /\ credentials = last.before.credentials
    /\ tokenFile = last.before.tokenFile
    /\ service = last.before.service

\* C20 as stated: a search, list or read, whether it succeeds or fails, leaves
\* the store's credential, the token file and the service handle as it found
\* them.
C20_CallsLeaveStoreAndServiceUnchanged == last.op # "" => LeftAsFound

\* C20: a call that finds the client with a service leaves the credential,
\* the token file and the service handle as it found them, whether it
\* succeeds or fails.  A call that finds no service runs the initialisation
\* again: it leaves a credential it found, and the token file with it; when it
\* found none it may run the authorization flow, which on success sets the
\* credential and writes the token file; and it sets the service handle to
\* the credential it ends with, or leaves it unset.
C20_CallsWithServiceChangeNothing ==
    last.op # "" =>
        /\ (last.before.service.has => LeftAsFound)
        /\ (~last.before.service.has /\ last.before.credentials.has =>
               /\ credentials = last.before.credentials
               /\ tokenFile = last.before.tokenFile
               /\ last.flows = 0)
        /\ (~last.before.service.has /\ ~last.before.credentials.has /\ last.flows = 0 =>
               LeftAsFound)
        /\ (~last.before.service.has => service \in {None, credentials})
        /\ (tokenFile # last.before.tokenFile =>
               last.flows = 1 /\ credentials.has /\ tokenFile = FileOf(credentials))

\* A read that fails on a client with a service changes nothing, and so does
\* one that succeeds.
C20_Witness ==
    /\ last.op = "read"
    /\ last.n = 2
    /\ last.before.service.has
    /\ last.err = "runtime"
    /\ nfailed = 1
    /\ LeftAsFound

\* A call that found no service and left one: the service is built on the
\* credential get_credentials returned to it.
ServiceBuiltInCall == last.op # "" /\ ~last.before.service.has /\ service.has

\* A credential that an authorization flow run for the call obtained is valid
\* as get_credentials returns it.
FlowCredentialIsValid ==
    ServiceBuiltInCall /\ last.flows = 1 => last.tok # 0 /\ ~last.stale

\* C21: a credential that get_credentials returns has a token and is not
\* expired as it is returned, to the client under construction and to a call
\* that initialises the service; and over a token file with an expired
\* credential that has no refresh token, with no client-secret file, the store
\* holds no credential.
C21_ReturnedCredentialIsValid ==
    /\ (pc = "serving" /\ ncalls = 0 /\ now = boot.at /\ credentials.has =>
           Valid(credentials, now))
    /\ (ServiceBuiltInCall => last.tok # 0 /\ ~last.stale)
    /\ (pc = "serving" /\ boot.file.st = "cred" /\ Expired(boot.file.cred, boot.at)
           /\ ~boot.file.cred.rt /\ ~secretExists =>
           ~credentials.has)

\* The calls that are inside _initialize_service().
Initialising == {i \in 1..MaxPending : tasks.calls[i].at = "init"}

\* C22: with calls pending together while the client has no service, at most
\* one of them is initialising the service at any moment, and only while
\* there is none; once a call has built the service no call builds it again,
\* and every call whose function ran used that one handle.
C22_OneInitialisationAtATime ==
    /\ Cardinality(Initialising) <= 1
    /\ (Initialising # {} => ~service.has)
    /\ tasks.built <= 1
    /\ (tasks.built = 1 => service.has)
    /\ \A i \in 1..MaxPending :
          tasks.calls[i].svc.has => tasks.calls[i].svc = service

\* Two calls were received while a third was initialising the service; it
\* built the service, and the two used the handle it built without
\* initialising again.
C22_Witness ==
    /\ tasks.built = 1
    /\ flowRuns = 1
    /\ \E i, j \in 1..MaxPending :
          /\ i # j
          /\ tasks.calls[i].waited /\ tasks.calls[j].waited
          /\ tasks.calls[i].at = "done" /\ tasks.calls[j].at = "done"
          /\ tasks.calls[i].svc = service /\ tasks.calls[j].svc = service
          /\ service.has

====
